---- MODULE Spec2Model ----
(***************************************************************************)
(* TidyFiles: the classifier, the transfer executor and the cleanup        *)
(* executor of tidyfiles/operations.py, the run and undo commands of       *)
(* tidyfiles/cli.py, over a small tree of regular files and directories.   *)
(*                                                                         *)
(* A path is a sequence of name components.  A component is a record       *)
(* [base, idx, ext]: the name it stands for is base, then "_n" for every n *)
(* of idx, then ext, so that <<"a", <<1, 2>>, ".txt">> is a_1_2.txt, its   *)
(* stem is a_1_2 and its suffix is .txt.                                   *)
(***************************************************************************)
EXTENDS Integers, Sequences, FiniteSets, TLC

VARIABLES
    fs,                      \* the filesystem: path -> [kind, content]
    readonly,                \* directories in which no entry can be created, renamed or removed
    transfer_plan,           \* list of <<source, destination>>
    delete_plan,             \* list of directories
    dry_run,
    pc,                      \* position of the run
    i,                       \* index of the current transfer_plan entry
    destination,             \* transfer_files: the loop variable destination
    num_transferred_files,
    j,                       \* index of the current delete_plan entry
    deleted_paths,
    num_deleted_directories,
    transfer_result,         \* what transfer_files returned, <<>> before it returns
    delete_result,           \* what delete_dirs returned, <<>> before it returns
    log,                     \* the records handed to logger.info / logger.error
    operations,              \* the session's operation list (the journal)
    u,                       \* undo: the index handed to undo_operation next
    file,                    \* get_folder_path: its arguments and result
    cleaning_plan,
    unrecognized_file,
    folder,
    source_dir,              \* create_plans: the directory it scans
    destination_dir,         \* main: the --destination-dir option, <<>> when not given
    excludes,                \* settings["excludes"]
    plan_calls,              \* what each call of create_plans returned
    sessions,                \* history.sessions: the journal's sessions, [id, status]
    current_session,         \* history.current_session: its index in sessions, 0 for None
    history_file,            \* the journal as last written to the history file
    undo_log,                \* observation: [index, ok] of every undo_operation call
    fs0,                     \* observation: fs when transfer_files was called
    fs1,                     \* observation: fs when delete_dirs was called
    raced,                   \* observation: another actor created the effective destination
    clobbered,               \* observation: paths whose file a move overwrote
    moved,                   \* observation: entries whose source left its path for the destination
    removed_nonempty         \* observation: directories removed while holding a file

vars == <<fs, readonly, transfer_plan, delete_plan, dry_run, pc, i, destination,
          num_transferred_files, j, deleted_paths, num_deleted_directories,
          transfer_result, delete_result, log, operations, u,
          file, cleaning_plan, unrecognized_file, folder,
          source_dir, destination_dir, excludes, plan_calls,
          sessions, current_session, history_file, undo_log,
          fs0, fs1, raced, clobbered, moved, removed_nonempty>>

\* ---------------------------------------------------------------- bounds
MaxPlan == 2
MaxDelete == 2
MaxRules == 2
MaxCalls == 2
MaxUndo == 2

\* ------------------------------------------------------------------ paths
Name(b, e) == [base |-> b, idx |-> <<>>, ext |-> e]
DirName(b) == Name(b, "")

\* pathlib: Path.parent
Parent(p) == SubSeq(p, 1, Len(p) - 1)

\* pathlib: Path.is_relative_to(other): other is p or an ancestor of p
IsRelativeTo(p, other) ==
    /\ Len(other) <= Len(p)
    /\ SubSeq(p, 1, Len(other)) = other

\* pathlib: Path.suffix, the extension of the last component with its dot
Suffix(p) == IF Len(p) = 0 THEN "" ELSE p[Len(p)].ext

\* destination.with_name(f"{destination.stem}_{copy_number}{destination.suffix}"):
\* the number is appended to the stem of the CURRENT destination
WithCopyNumber_FromPlanned(p, copy_number) ==
    [p EXCEPT ![Len(p)].idx = <<copy_number>>]

WithCopyNumber(p, copy_number) ==
    [p EXCEPT ![Len(p)].idx = Append(@, copy_number)]

Prefixes(p) == { SubSeq(p, 1, k) : k \in 0..Len(p) }

\* ------------------------------------------------------------- filesystem
DirEntry == [kind |-> "dir", content |-> "-"]
FileEntry(c) == [kind |-> "file", content |-> c]

\* pathlib: Path.exists / is_dir / is_file
Exists(f, p) == p \in DOMAIN f
IsDir(f, p) == p \in DOMAIN f /\ f[p].kind = "dir"
IsFile(f, p) == p \in DOMAIN f /\ f[p].kind = "file"

Children(f, d) == { q \in DOMAIN f : Len(q) = Len(d) + 1 /\ IsRelativeTo(q, d) }
Under(f, d) == { q \in DOMAIN f : IsRelativeTo(q, d) }
FilesUnder(f, d) == { q \in Under(f, d) : f[q].kind = "file" }
Without(f, gone) == [ q \in (DOMAIN f) \ gone |-> f[q] ]

\* the contents held by the regular files of f
Contents(f) == { f[q].content : q \in { x \in DOMAIN f : f[x].kind = "file" } }

\* Path.mkdir(parents=True) without exist_ok: raises when p is already there
Mkdir_NotExistOk(f, ro, p) ==
    LET missing == { q \in Prefixes(p) : ~Exists(f, q) }
        denied == \E q \in missing : Exists(f, Parent(q)) /\ Parent(q) \in ro
    IN  IF Exists(f, p) \/ denied \/ \E q \in Prefixes(p) : Exists(f, q) /\ ~IsDir(f, q)
        THEN [ok |-> FALSE, fs |-> f]
        ELSE [ok |-> TRUE,
              fs |-> [ q \in (DOMAIN f) \cup missing |->
                         IF q \in DOMAIN f THEN f[q] ELSE DirEntry ]]

\* Path.mkdir(parents=True, exist_ok=True): raises when p or an ancestor is
\* not a directory, or when the first missing directory cannot be created;
\* nothing is created when it raises
Mkdir(f, ro, p) ==
    LET missing == { q \in Prefixes(p) : ~Exists(f, q) }
        blocked == \E q \in Prefixes(p) : Exists(f, q) /\ ~IsDir(f, q)
        denied == \E q \in missing : Exists(f, Parent(q)) /\ Parent(q) \in ro
    IN  IF blocked \/ denied
        THEN [ok |-> FALSE, fs |-> f]
        ELSE [ok |-> TRUE,
              fs |-> [ q \in (DOMAIN f) \cup missing |->
                         IF q \in DOMAIN f THEN f[q] ELSE DirEntry ]]

\* Path.replace(target) of a regular file: os.replace, which silently
\* overwrites an existing file at target
Replace(f, ro, source, target) ==
    IF \/ ~IsFile(f, source)
       \/ ~IsDir(f, Parent(target))
       \/ IsDir(f, target)
       \/ Parent(source) \in ro
       \/ Parent(target) \in ro
    THEN [ok |-> FALSE, fs |-> f]
    ELSE [ok |-> TRUE,
          fs |-> [ q \in ((DOMAIN f) \ {source}) \cup {target} |->
                     IF q = target THEN f[source] ELSE f[q] ]]

\* shutil.rmtree: the entries of a directory are removed in the order the
\* operating system lists them, each directory after its own entries; the
\* first entry that cannot be removed raises, and what was removed before it
\* stays removed.  The set of possible outcomes [ok, fs].
RECURSIVE RmEntry(_, _, _)
RECURSIVE RmEntries(_, _, _)
RmEntry(f, ro, p) ==
    IF f[p].kind = "dir"
    THEN { IF ~o.ok THEN o
           ELSE IF Parent(p) \in ro THEN [ok |-> FALSE, fs |-> o.fs]
           ELSE [ok |-> TRUE, fs |-> Without(o.fs, {p})]
           : o \in RmEntries(f, ro, Children(f, p)) }
    ELSE IF Parent(p) \in ro
         THEN { [ok |-> FALSE, fs |-> f] }
         ELSE { [ok |-> TRUE, fs |-> Without(f, {p})] }

RmEntries(f, ro, todo) ==
    IF todo = {}
    THEN { [ok |-> TRUE, fs |-> f] }
    ELSE UNION { UNION { IF o.ok THEN RmEntries(o.fs, ro, todo \ {c}) ELSE {o}
                         : o \in RmEntry(f, ro, c) }
                 : c \in todo }

Rmtree(f, ro, directory) ==
    IF ~IsDir(f, directory)
    THEN { [ok |-> FALSE, fs |-> f] }
    ELSE RmEntry(f, ro, directory)

\* ------------------------------------------------------------- classifier
\* get_folder_path: cleaning_plan is the dict in iteration order, a list of
\* [folder, extensions]; the first folder whose list holds file.suffix
get_folder_path_LastMatch(f, plan, unrecognized) ==
    LET matching == { k \in 1..Len(plan) : Suffix(f) \in plan[k].extensions }
    IN  IF matching = {}
        THEN unrecognized
        ELSE plan[CHOOSE k \in matching : \A m \in matching : m <= k].folder

get_folder_path(f, plan, unrecognized) ==
    LET matching == { k \in 1..Len(plan) : Suffix(f) \in plan[k].extensions }
    IN  IF matching = {}
        THEN unrecognized
        ELSE plan[CHOOSE k \in matching : \A m \in matching : k <= m].folder

\* ------------------------------------------------------- transfer executor
\* transfer_files, the loop "while destination.exists()": the path the loop
\* leaves in destination
WhileExists_Once(f, dest, copy_number) ==
    IF Exists(f, dest) THEN WithCopyNumber(dest, copy_number) ELSE dest

RECURSIVE WhileExists(_, _, _)
WhileExists(f, dest, copy_number) ==
    IF Exists(f, dest)
    THEN WhileExists(f, WithCopyNumber(dest, copy_number), copy_number + 1)
    ELSE dest

EffectiveDestination_NoCheck(f, planned) == planned

EffectiveDestination(f, planned) == WhileExists(f, planned, 1)

\* transfer_files, the body after the loop: [fs, status] of one entry
MoveFile_IgnoreDryRun(f, ro, source, dest, dry) ==
    LET mk == Mkdir(f, ro, Parent(dest))
        mv == Replace(mk.fs, ro, source, dest)
    IN  IF mk.ok /\ mv.ok
        THEN [fs |-> mv.fs, status |-> IF dry THEN "DRY-RUN" ELSE "SUCCESS"]
        ELSE [fs |-> mk.fs, status |-> IF dry THEN "DRY-RUN" ELSE "FAILED"]

MoveFile(f, ro, source, dest, dry) ==
    IF dry
    THEN [fs |-> f, status |-> "DRY-RUN"]
    ELSE LET mk == Mkdir(f, ro, Parent(dest))
             mv == Replace(mk.fs, ro, source, dest)
         IN  IF mk.ok /\ mv.ok
             THEN [fs |-> mv.fs, status |-> "SUCCESS"]
             ELSE [fs |-> mk.fs, status |-> "FAILED"]

\* num_transferred_files += 1 sits in the try block, after the move
CountMoved_Always(n, status) == n + 1

CountMoved(n, status) == IF status = "SUCCESS" THEN n + 1 ELSE n

\* -------------------------------------------------------- cleanup executor
\* any(directory.is_relative_to(deleted) for deleted in deleted_paths)
AlreadyDeleted_Never(directory, deleted) == FALSE

AlreadyDeleted(directory, deleted) ==
    \E x \in deleted : IsRelativeTo(directory, x)

\* delete_dirs, one entry: the possible [fs, status, counted, removed];
\* status NONE is the entry that does not exist, for which nothing is logged
DeleteEntry_CountFailed(f, ro, deleted, directory, dry) ==
    IF AlreadyDeleted(directory, deleted)
    THEN { [fs |-> f, status |-> "SKIPPED", counted |-> TRUE, removed |-> FALSE] }
    ELSE IF dry
    THEN { [fs |-> f, status |-> "DRY-RUN", counted |-> FALSE, removed |-> FALSE] }
    ELSE IF Exists(f, directory)
    THEN { [fs |-> o.fs, status |-> IF o.ok THEN "SUCCESS" ELSE "FAILED",
            counted |-> TRUE, removed |-> o.ok]
           : o \in Rmtree(f, ro, directory) }
    ELSE { [fs |-> f, status |-> "NONE", counted |-> FALSE, removed |-> FALSE] }

DeleteEntry_AddFailed(f, ro, deleted, directory, dry) ==
    IF AlreadyDeleted(directory, deleted)
    THEN { [fs |-> f, status |-> "SKIPPED", counted |-> TRUE, removed |-> FALSE] }
    ELSE IF dry
    THEN { [fs |-> f, status |-> "DRY-RUN", counted |-> FALSE, removed |-> FALSE] }
    ELSE IF Exists(f, directory)
    THEN { [fs |-> o.fs, status |-> IF o.ok THEN "SUCCESS" ELSE "FAILED",
            counted |-> o.ok, removed |-> TRUE]
           : o \in Rmtree(f, ro, directory) }
    ELSE { [fs |-> f, status |-> "NONE", counted |-> FALSE, removed |-> FALSE] }

DeleteEntry(f, ro, deleted, directory, dry) ==
    IF AlreadyDeleted(directory, deleted)
    THEN { [fs |-> f, status |-> "SKIPPED", counted |-> TRUE, removed |-> FALSE] }
    ELSE IF dry
    THEN { [fs |-> f, status |-> "DRY-RUN", counted |-> FALSE, removed |-> FALSE] }
    ELSE IF Exists(f, directory)
    THEN { [fs |-> o.fs, status |-> IF o.ok THEN "SUCCESS" ELSE "FAILED",
            counted |-> o.ok, removed |-> o.ok]
           : o \in Rmtree(f, ro, directory) }
    ELSE { [fs |-> f, status |-> "NONE", counted |-> FALSE, removed |-> FALSE] }

\* ----------------------------------------------------------------- journal
\* the operation a run records for an entry: the status executed entries get
JournalStatus(status) ==
    CASE status \in {"SUCCESS", "SKIPPED"} -> "Success"
      [] status = "DRY-RUN" -> "DryRun"
      [] OTHER -> "Failed"

Record_SuccessOnly(ops, dry, type, source, dest, status) ==
    IF dry \/ JournalStatus(status) # "Success"
    THEN ops
    ELSE Append(ops, [type |-> type, source |-> source, destination |-> dest,
                      status |-> "Success"])

Record_Prepend(ops, dry, type, source, dest, status) ==
    IF dry
    THEN ops
    ELSE <<[type |-> type, source |-> source, destination |-> dest,
            status |-> JournalStatus(status)]>> \o ops

\* history is None in a dry run (cli.py: "if not dry_run"), so nothing is recorded
Record(ops, dry, type, source, dest, status) ==
    IF dry
    THEN ops
    ELSE Append(ops, [type |-> type, source |-> source, destination |-> dest,
                      status |-> JournalStatus(status)])

\* start_session: id = max existing id + 1, or 1; a Running session is appended
MaxId(sess) ==
    IF sess = <<>> THEN 0
    ELSE CHOOSE m \in { sess[k].id : k \in DOMAIN sess } :
            \A k \in DOMAIN sess : sess[k].id <= m

start_session_ReuseLastId(sess, dry) ==
    IF dry THEN sess
    ELSE Append(sess, [id |-> IF sess = <<>> THEN 1 ELSE MaxId(sess), status |-> "Running"])

start_session(sess, dry) ==
    IF dry THEN sess
    ELSE Append(sess, [id |-> MaxId(sess) + 1, status |-> "Running"])

\* main, at the end of a run: history.current_session["status"] = "Completed"
complete_session_All(sess, cur) ==
    [ k \in DOMAIN sess |-> [sess[k] EXCEPT !.status = "Completed"] ]

complete_session(sess, cur) ==
    IF cur \in DOMAIN sess
    THEN [sess EXCEPT ![cur].status = "Completed"]
    ELSE sess

\* undo, the loop over reversed(range(len(operations))): where it goes after
\* a call at index u returned ok
UndoLoop_NoBreak(u_, ok) ==
    [pc |-> IF u_ = 1 THEN "undone" ELSE "undo", u |-> u_ - 1]

UndoLoop(u_, ok) ==
    IF ~ok THEN [pc |-> "undo_failed", u |-> u_]
    ELSE [pc |-> IF u_ = 1 THEN "undone" ELSE "undo", u |-> u_ - 1]

save_history_Never(hf, sess, ops, dry) == hf

\* history._save_history(): the journal is rewritten in full; there is no
\* history object in a dry run
save_history(hf, sess, ops, dry) ==
    IF dry THEN hf ELSE [sessions |-> sess, operations |-> ops]

RemoveAt_Last(s, k) == SubSeq(s, 1, Len(s) - 1)

RemoveAt_First(s, k) == SubSeq(s, 2, Len(s))

RemoveAt(s, k) == [ n \in 1..(Len(s) - 1) |-> IF n < k THEN s[n] ELSE s[n + 1] ]

UndoOperation_Swallow(f, ro, ops, k) ==
    [ok |-> TRUE, fs |-> f, operations |-> SubSeq(ops, 1, Len(ops) - 1)]

\* undo_operation(session_id, index): [ok, fs, operations]
UndoOperation(f, ro, ops, k) ==
    IF k < 1 \/ k > Len(ops)
    THEN [ok |-> FALSE, fs |-> f, operations |-> ops]
    ELSE LET op == ops[k]
         IN  IF op.type = "Move"
             THEN IF ~Exists(f, op.destination)
                  THEN [ok |-> FALSE, fs |-> f, operations |-> ops]
                  ELSE LET mk == Mkdir(f, ro, Parent(op.source))
                           mv == Replace(mk.fs, ro, op.destination, op.source)
                       IN  IF mk.ok /\ mv.ok
                           THEN [ok |-> TRUE, fs |-> mv.fs, operations |-> RemoveAt(ops, k)]
                           ELSE [ok |-> FALSE, fs |-> mk.fs, operations |-> ops]
             ELSE LET mk == Mkdir(f, ro, op.source)
                  IN  IF mk.ok
                      THEN [ok |-> TRUE, fs |-> mk.fs, operations |-> RemoveAt(ops, k)]
                      ELSE [ok |-> FALSE, fs |-> f, operations |-> ops]

\* ----------------------------------------------------------------- the tree
\* src/d/a.txt and src/a.txt share a name; dest/a.txt and dest/a_1.txt may
\* already be there; dest/docs is not
root == <<>>
src == <<DirName("src")>>
d == Append(src, DirName("d"))
sub == Append(d, DirName("sub"))
A1 == Append(d, Name("a", ".txt"))
A2 == Append(src, Name("a", ".txt"))
dest == <<DirName("dest")>>
B == Append(dest, Name("a", ".txt"))
B1 == WithCopyNumber(B, 1)
docs == Append(dest, DirName("docs"))
docsA == Append(docs, Name("a", ".txt"))
other == Append(dest, DirName("other"))

Tree(hasSub, hasB, hasB1) ==
    LET paths == {root, src, d, A1, A2, dest}
                 \cup (IF hasSub THEN {sub} ELSE {})
                 \cup (IF hasB THEN {B} ELSE {})
                 \cup (IF hasB1 THEN {B1} ELSE {})
    IN  [ q \in paths |->
            CASE q = A1 -> FileEntry("c1")
              [] q = A2 -> FileEntry("c2")
              [] q = B  -> FileEntry("c3")
              [] q = B1 -> FileEntry("c4")
              [] OTHER  -> DirEntry ]

Trees == { Tree(a, b, c) : a \in BOOLEAN, b \in BOOLEAN, c \in BOOLEAN }

\* a plan lists every source once (create_plans walks the tree once)
PlanEntries == {A1, A2, B} \X {B, docsA}
TransferPlans ==
    { t \in UNION { [1..n -> PlanEntries] : n \in 0..MaxPlan } :
        \A a, b \in DOMAIN t : a # b => t[a][1] # t[b][1] }
DeletePlans ==
    { t \in UNION { [1..n -> {d, sub, docs}] : n \in 0..MaxDelete } :
        \A a, b \in DOMAIN t : a # b => t[a] # t[b] }
ReadOnlySets == { {}, {src}, {d}, {dest} }

\* the rulesets and files handed to get_folder_path
images == Append(dest, DirName("images"))
misc == Append(dest, DirName("misc"))
ExtensionLists == { {".txt"}, {".jpg", ".txt"}, {".TXT"}, {""}, {} }
Rules == [folder : {docs, images, misc}, extensions : ExtensionLists]
Rulesets ==
    { r \in UNION { [1..n -> Rules] : n \in 0..MaxRules } :
        \A a, b \in DOMAIN r : a # b => r[a].folder # r[b].folder }
ClassifiedFiles ==
    { Append(src, Name("a", e)) : e \in {".txt", ".TXT", ".jpg", ""} }

\* ----------------------------------------------------------------- planner
\* a symbolic link whose target does not exist: neither is_dir() nor is_file()
SymlinkEntry == [kind |-> "symlink", content |-> "-"]

\* the tool's own files, kept in a folder that may lie under the source directory
conf == Append(src, DirName("conf"))
settings_file_path == Append(conf, Name("settings", ".toml"))
log_file_path == Append(conf, Name("tidyfiles", ".log"))
history_file_path == Append(conf, Name("history", ".json"))
test_link == Append(src, DirName("test_link"))

PlanTree(hasSub, hasLink, hasConf) ==
    LET paths == {root, src, d, A1, A2, dest}
                 \cup (IF hasSub THEN {sub} ELSE {})
                 \cup (IF hasLink THEN {test_link} ELSE {})
                 \cup (IF hasConf
                       THEN {conf, settings_file_path, log_file_path, history_file_path}
                       ELSE {})
    IN  [ q \in paths |->
            CASE q = A1 -> FileEntry("c1")
              [] q = A2 -> FileEntry("c2")
              [] q = settings_file_path -> FileEntry("settings")
              [] q = log_file_path -> FileEntry("log")
              [] q = history_file_path -> FileEntry("history")
              [] q = test_link -> SymlinkEntry
              [] OTHER  -> DirEntry ]

\* the default layout: the category folders lie in the source directory itself
sdocs == Append(src, DirName("docs"))
sdocsA == Append(sdocs, Name("a", ".txt"))

\* the trees main is started on; with organized, an earlier run has left
\* src/docs/a.txt behind
MainTree(hasD, hasA2, organized) ==
    LET paths == {root, src, dest, B}
                 \cup (IF hasD THEN {d, A1} ELSE {})
                 \cup (IF hasA2 THEN {A2} ELSE {})
                 \cup (IF organized THEN {sdocs, sdocsA} ELSE {})
    IN  [ q \in paths |->
            CASE q = A1 -> FileEntry("c1")
              [] q = A2 -> FileEntry("c2")
              [] q = B  -> FileEntry("c3")
              [] q = sdocsA -> FileEntry("c5")
              [] OTHER  -> DirEntry ]

MainTrees == { MainTree(a, b, c) : a \in BOOLEAN, b \in BOOLEAN, c \in BOOLEAN }

\* the --source-dir and --destination-dir options of an invocation: a
\* directory, a regular file, a path that does not exist, or no option
SourceOptions == {src, B, other}
DestinationOptions == {<<>>, <<dest>>, <<B>>, <<docs>>}

PlanTrees == { PlanTree(a, b, c) : a \in BOOLEAN, b \in BOOLEAN, c \in BOOLEAN }

\* the excludes a caller passes, or the user lists in the settings
ExcludeSets == { {}, {d}, {A2}, {sub, conf} }

PlannerRules ==
    { <<[folder |-> docs, extensions |-> {".txt"}]>>,
      <<[folder |-> images, extensions |-> {".jpg"}],
        [folder |-> docs, extensions |-> {".txt", ".toml"}]>> }

\* the order in which the operating system lists the entries is not fixed:
\* one listing and its reverse are the orders a scan can take
Listing == <<d, A1, sub, A2, test_link, conf, settings_file_path, log_file_path,
             history_file_path, sdocs, sdocsA>>
Reverse(s) == [ k \in 1..Len(s) |-> s[Len(s) + 1 - k] ]
Orders == {"forward", "backward"}

\* source_dir.rglob("*"): every entry below source_dir, never source_dir itself
rglob(f, dir, order) ==
    SelectSeq(IF order = "forward" THEN Listing ELSE Reverse(Listing),
              LAMBDA q : Exists(f, q) /\ q # dir /\ IsRelativeTo(q, dir))

\* destination_folder / filesystem_object.name
PlannedDestination(q, plan, unrecognized) ==
    Append(get_folder_path(q, plan, unrecognized), q[Len(q)])

\* create_plans(source_dir, cleaning_plan, unrecognized_file, **kwargs): the
\* excludes arrive in kwargs, which the body never reads
create_plans_NotDirIsFile(f, dir, plan, unrecognized, excl, order) ==
    LET walk == rglob(f, dir, order)
        files == SelectSeq(walk, LAMBDA q : ~IsDir(f, q))
    IN  [transfer_plan |->
            [ k \in 1..Len(files) |->
                <<files[k], PlannedDestination(files[k], plan, unrecognized)>> ],
         delete_plan |-> SelectSeq(walk, LAMBDA q : IsDir(f, q))]

create_plans_FirstFileOnly(f, dir, plan, unrecognized, excl, order) ==
    LET walk == rglob(f, dir, order)
        files == SelectSeq(walk, LAMBDA q : IsFile(f, q))
    IN  [transfer_plan |->
            [ k \in 1..(IF Len(files) > 0 THEN 1 ELSE 0) |->
                <<files[k], PlannedDestination(files[k], plan, unrecognized)>> ],
         delete_plan |-> SelectSeq(walk, LAMBDA q : IsDir(f, q))]

create_plans(f, dir, plan, unrecognized, excl, order) ==
    LET walk == rglob(f, dir, order)
        files == SelectSeq(walk, LAMBDA q : IsFile(f, q))
    IN  [transfer_plan |->
            [ k \in 1..Len(files) |->
                <<files[k], PlannedDestination(files[k], plan, unrecognized)>> ],
         delete_plan |-> SelectSeq(walk, LAMBDA q : IsDir(f, q))]

\* get_settings: the checks of the source and destination options that raise
get_settings_raises_Never(f, source, dst) == FALSE

get_settings_raises(f, source, dst) ==
    \/ ~Exists(f, source)
    \/ ~IsDir(f, source)
    \/ dst # <<>> /\ Exists(f, dst[1]) /\ ~IsDir(f, dst[1])

\* get_settings: destination_dir, the source directory when the option is not given
DestinationRoot(source, dst) == IF dst = <<>> THEN source ELSE dst[1]

\* get_settings: cleaning_plan, the category folders under destination_dir
SettingsCleaningPlan(dst) ==
    <<[folder |-> Append(dst, DirName("docs")), extensions |-> {".txt"}]>>

\* get_settings: unrecognized_file, under destination_dir
SettingsUnrecognized(dst) == Append(dst, DirName("other"))

\* the path-safety validator: unsafe for the filesystem root, for a path whose
\* parent directory is not writable, and whenever the check itself fails
is_safe_path(ro, p, error) ==
    IF error THEN FALSE
    ELSE p # root /\ Parent(p) \notin ro

\* get_settings: excludes_set
excludes_set(raw) == raw \cup {settings_file_path, log_file_path}

\* -------------------------------------------------------------------- Init
\* create_plans is not part of the run: the plans are given
NoPlanner ==
    /\ source_dir = src
    /\ destination_dir = <<>>
    /\ excludes = {}
    /\ plan_calls = <<>>

\* main has started the run's session (nothing in a dry run: history is None)
SessionStarted ==
    /\ sessions = start_session(<<>>, dry_run)
    /\ current_session = Len(sessions)
    /\ history_file = [sessions |-> sessions, operations |-> <<>>]

NoClassifier ==
    /\ file = root
    /\ cleaning_plan = <<>>
    /\ unrecognized_file = other
    /\ folder = root

Idle ==
    /\ i = 1
    /\ destination = root
    /\ num_transferred_files = 0
    /\ j = 1
    /\ deleted_paths = {}
    /\ num_deleted_directories = 0
    /\ transfer_result = <<>>
    /\ delete_result = <<>>
    /\ log = <<>>
    /\ operations = <<>>
    /\ u = 0
    /\ raced = {}
    /\ clobbered = {}
    /\ moved = {}
    /\ removed_nonempty = {}
    /\ undo_log = <<>>

Init ==
    /\ fs \in Trees
    /\ readonly \in ReadOnlySets
    /\ transfer_plan \in TransferPlans
    /\ delete_plan \in DeletePlans
    /\ dry_run \in BOOLEAN
    /\ pc = "transfer"
    /\ fs0 = fs
    /\ fs1 = fs
    /\ Idle
    /\ NoClassifier
    /\ NoPlanner
    /\ SessionStarted

InitClassify ==
    /\ fs = Tree(FALSE, FALSE, FALSE)
    /\ readonly = {}
    /\ transfer_plan = <<>>
    /\ delete_plan = <<>>
    /\ dry_run = TRUE
    /\ pc = "classify"
    /\ fs0 = fs
    /\ fs1 = fs
    /\ Idle
    /\ file \in ClassifiedFiles
    /\ cleaning_plan \in Rulesets
    /\ unrecognized_file = other
    /\ folder = root
    /\ NoPlanner
    /\ SessionStarted

\* a run that journals, later undone one operation at a time
InitUndoOne ==
    /\ fs \in {Tree(FALSE, TRUE, FALSE), Tree(TRUE, FALSE, FALSE)}
    /\ readonly \in {{}, {dest}}
    /\ transfer_plan \in TransferPlans
    /\ delete_plan \in DeletePlans
    /\ dry_run = FALSE
    /\ pc = "transfer"
    /\ fs0 = fs
    /\ fs1 = fs
    /\ Idle
    /\ NoClassifier
    /\ NoPlanner
    /\ SessionStarted

\* the journals a run can find in the history file: earlier sessions, the
\* last of them possibly abandoned
PriorJournals ==
    { <<>>,
      <<[id |-> 1, status |-> "Completed"]>>,
      <<[id |-> 1, status |-> "Running"], [id |-> 2, status |-> "Completed"]>>,
      <<[id |-> 1, status |-> "Completed"], [id |-> 2, status |-> "Running"]>> }

\* main is about to open the history file and start the run's session
InitSession ==
    /\ fs = Tree(TRUE, TRUE, FALSE)
    /\ readonly \in {{}, {d}}
    /\ transfer_plan \in TransferPlans
    /\ delete_plan \in DeletePlans
    /\ dry_run \in BOOLEAN
    /\ pc = "begin"
    /\ fs0 = fs
    /\ fs1 = fs
    /\ Idle
    /\ NoClassifier
    /\ NoPlanner
    /\ sessions = <<>>
    /\ current_session = 0
    /\ history_file \in [sessions : PriorJournals, operations : {<<>>}]

\* main is invoked with its options
InitMain ==
    /\ fs \in MainTrees
    /\ readonly \in {{}, {src}}
    /\ transfer_plan = <<>>
    /\ delete_plan = <<>>
    /\ dry_run \in BOOLEAN
    /\ pc = "main"
    /\ fs0 = fs
    /\ fs1 = fs
    /\ Idle
    /\ NoClassifier
    /\ source_dir \in SourceOptions
    /\ destination_dir \in DestinationOptions
    /\ excludes = {}
    /\ plan_calls = <<>>
    /\ sessions = <<>>
    /\ current_session = 0
    /\ history_file = [sessions |-> <<>>, operations |-> <<>>]

\* create_plans is about to be called, by main after get_settings or directly
InitPlan ==
    /\ fs \in PlanTrees
    /\ readonly = {}
    /\ transfer_plan = <<>>
    /\ delete_plan = <<>>
    /\ dry_run = TRUE
    /\ pc \in {"get_settings", "create_plans"}
    /\ fs0 = fs
    /\ fs1 = fs
    /\ Idle
    /\ file = root
    /\ cleaning_plan \in PlannerRules
    /\ unrecognized_file = other
    /\ folder = root
    /\ source_dir = src
    /\ destination_dir = <<>>
    /\ excludes \in ExcludeSets
    /\ plan_calls = <<>>
    /\ SessionStarted

\* ----------------------------------------------------------------- actions
classifier_vars == <<file, cleaning_plan, unrecognized_file, folder>>
plan_vars == <<transfer_plan, delete_plan, dry_run, fs0>>
transfer_vars == <<i, destination, num_transferred_files, transfer_result, raced,
                   clobbered, moved>>
delete_vars == <<j, deleted_paths, num_deleted_directories, delete_result, removed_nonempty>>
planner_vars == <<source_dir, destination_dir, excludes, plan_calls>>
session_vars == <<sessions, current_session>>

LogRecord(op, status, from, to) ==
    [op |-> op, status |-> status, from |-> from, to |-> to]

\* get_folder_path(file, cleaning_plan, unrecognized_file)
Classify ==
    /\ pc = "classify"
    /\ folder' = get_folder_path(file, cleaning_plan, unrecognized_file)
    /\ pc' = "classified"
    /\ UNCHANGED <<fs, readonly, fs1, log, operations, u, file, cleaning_plan,
                   unrecognized_file>>
    /\ UNCHANGED <<plan_vars, transfer_vars, delete_vars>>
    /\ UNCHANGED <<planner_vars, session_vars, history_file, undo_log>>

\* transfer_files: copy_number = 1 and the while loop of one entry
TransferResolve ==
    /\ pc = "transfer"
    /\ i <= Len(transfer_plan)
    /\ destination' = EffectiveDestination(fs, transfer_plan[i][2])
    /\ pc' = "move"
    /\ UNCHANGED <<fs, readonly, fs1, log, operations, u, i, num_transferred_files,
                   transfer_result, raced, clobbered, moved>>
    /\ UNCHANGED <<plan_vars, delete_vars, classifier_vars>>
    /\ UNCHANGED <<planner_vars, session_vars, history_file, undo_log>>

\* transfer_files: the dry-run branch or the try block of one entry
TransferMove ==
    /\ pc = "move"
    /\ LET source == transfer_plan[i][1]
           r == MoveFile(fs, readonly, source, destination, dry_run)
       IN  /\ fs' = r.fs
           /\ log' = Append(log, LogRecord("MOVE_FILE", r.status, source, destination))
           /\ num_transferred_files' = CountMoved(num_transferred_files, r.status)
           /\ operations' = Record(operations, dry_run, "Move", source, destination, r.status)
           /\ history_file' = save_history(history_file, sessions, operations', dry_run)
           /\ clobbered' = IF r.status = "SUCCESS" /\ Exists(fs, destination)
                           THEN clobbered \cup {destination}
                           ELSE clobbered
           /\ moved' = IF /\ IsFile(fs, source)
                          /\ ~Exists(r.fs, source)
                          /\ IsFile(r.fs, destination)
                          /\ r.fs[destination] = fs[source]
                       THEN moved \cup {i}
                       ELSE moved
    /\ i' = i + 1
    /\ pc' = "transfer"
    /\ UNCHANGED <<readonly, fs1, u, destination, transfer_result, raced>>
    /\ UNCHANGED <<plan_vars, delete_vars, classifier_vars>>
    /\ UNCHANGED <<planner_vars, session_vars, undo_log>>

\* transfer_files: return num_transferred_files, len(transfer_plan);
\* the caller goes on to delete_dirs
TransferReturn ==
    /\ pc = "transfer"
    /\ i > Len(transfer_plan)
    /\ transfer_result' = <<num_transferred_files, Len(transfer_plan)>>
    /\ fs1' = fs
    /\ pc' = "cleanup"
    /\ UNCHANGED <<fs, readonly, log, operations, u, i, destination,
                   num_transferred_files, raced, clobbered, moved>>
    /\ UNCHANGED <<plan_vars, delete_vars, classifier_vars>>
    /\ UNCHANGED <<planner_vars, session_vars, history_file, undo_log>>

\* delete_dirs: one entry of the loop
DeleteStep ==
    /\ pc = "cleanup"
    /\ j <= Len(delete_plan)
    /\ LET directory == delete_plan[j]
       IN  \E r \in DeleteEntry(fs, readonly, deleted_paths, directory, dry_run) :
             /\ fs' = r.fs
             /\ readonly' = readonly \cap DOMAIN r.fs
             /\ deleted_paths' = IF r.removed THEN deleted_paths \cup {directory}
                                 ELSE deleted_paths
             /\ num_deleted_directories' =
                    IF r.counted THEN num_deleted_directories + 1
                    ELSE num_deleted_directories
             /\ log' = IF r.status = "NONE" THEN log
                       ELSE Append(log, LogRecord("DELETE_DIR", r.status, directory, root))
             /\ operations' = Record(operations, dry_run, "DeleteDirectory",
                                     directory, root, r.status)
             /\ history_file' = save_history(history_file, sessions, operations', dry_run)
             /\ removed_nonempty' =
                    IF r.removed /\ FilesUnder(fs, directory) # {}
                    THEN removed_nonempty \cup {directory}
                    ELSE removed_nonempty
    /\ j' = j + 1
    /\ UNCHANGED <<pc, fs1, u, delete_result>>
    /\ UNCHANGED <<plan_vars, transfer_vars, classifier_vars>>
    /\ UNCHANGED <<planner_vars, session_vars, undo_log>>

\* delete_dirs: return num_deleted_directories, len(delete_plan)
DeleteReturn ==
    /\ pc = "cleanup"
    /\ j > Len(delete_plan)
    /\ delete_result' = <<num_deleted_directories, Len(delete_plan)>>
    /\ pc' = "done"
    /\ UNCHANGED <<fs, readonly, fs1, log, operations, u, j, deleted_paths,
                   num_deleted_directories, removed_nonempty>>
    /\ UNCHANGED <<plan_vars, transfer_vars, classifier_vars>>
    /\ UNCHANGED <<planner_vars, session_vars, history_file, undo_log>>

\* another program creates a file at the path the loop found free, before the move
ExternalCreate ==
    /\ pc = "move"
    /\ ~dry_run
    /\ ~Exists(fs, destination)
    /\ IsDir(fs, Parent(destination))
    /\ fs' = [ q \in (DOMAIN fs) \cup {destination} |->
                 IF q = destination THEN FileEntry("external") ELSE fs[q] ]
    /\ raced' = raced \cup {i}
    /\ UNCHANGED <<readonly, pc, fs1, log, operations, u, i, destination,
                   num_transferred_files, transfer_result, clobbered, moved>>
    /\ UNCHANGED <<plan_vars, delete_vars, classifier_vars>>
    /\ UNCHANGED <<planner_vars, session_vars, history_file, undo_log>>

\* the run has ended: normally without or with main's last lines, or killed
Finished == {"done", "completed", "killed"}

\* main: history = OperationHistory(history_file_path); history.start_session(...),
\* only "if not dry_run"
RunBegin ==
    /\ pc \in {"begin", "main_begin"}
    /\ sessions' = start_session(IF dry_run THEN sessions ELSE history_file.sessions,
                                  dry_run)
    /\ current_session' = IF dry_run THEN 0 ELSE Len(sessions')
    /\ operations' = <<>>
    /\ history_file' = save_history(history_file, sessions', operations', dry_run)
    /\ pc' = IF pc = "begin" THEN "transfer" ELSE "main_plan"
    /\ UNCHANGED <<fs, readonly, fs1, log, u, undo_log>>
    /\ UNCHANGED <<plan_vars, transfer_vars, delete_vars, classifier_vars, planner_vars>>

\* main, after run_file_operations: the session becomes Completed and is saved
RunComplete ==
    /\ pc = "done"
    /\ sessions' = IF dry_run THEN sessions
                    ELSE complete_session(sessions, current_session)
    /\ history_file' = save_history(history_file, sessions', operations, dry_run)
    /\ pc' = "completed"
    /\ UNCHANGED <<fs, readonly, fs1, log, operations, u, current_session, undo_log>>
    /\ UNCHANGED <<plan_vars, transfer_vars, delete_vars, classifier_vars, planner_vars>>

\* the process is killed between the start of the session and main's last lines
Kill ==
    /\ pc \in {"transfer", "move", "cleanup", "done"}
    /\ pc' = "killed"
    /\ UNCHANGED <<fs, readonly, fs1, log, operations, u>>
    /\ UNCHANGED <<plan_vars, transfer_vars, delete_vars, classifier_vars>>
    /\ UNCHANGED <<planner_vars, session_vars, history_file, undo_log>>

\* the process is killed inside transfer_files after shutil.move has returned
\* and before the operation is recorded
KillAfterMove ==
    /\ pc = "move"
    /\ ~dry_run
    /\ LET source == transfer_plan[i][1]
           r == MoveFile(fs, readonly, source, destination, dry_run)
       IN  /\ r.status = "SUCCESS"
           /\ fs' = r.fs
           /\ clobbered' = IF Exists(fs, destination)
                           THEN clobbered \cup {destination}
                           ELSE clobbered
           /\ moved' = IF /\ IsFile(fs, source)
                          /\ ~Exists(r.fs, source)
                          /\ IsFile(r.fs, destination)
                          /\ r.fs[destination] = fs[source]
                       THEN moved \cup {i}
                       ELSE moved
    /\ pc' = "killed"
    /\ UNCHANGED <<readonly, fs1, log, operations, u, i, destination,
                   num_transferred_files, transfer_result, raced>>
    /\ UNCHANGED <<plan_vars, delete_vars, classifier_vars>>
    /\ UNCHANGED <<planner_vars, session_vars, history_file, undo_log>>

\* the process is killed inside delete_dirs after shutil.rmtree has returned
\* and before the operation is recorded
KillAfterRmtree ==
    /\ pc = "cleanup"
    /\ ~dry_run
    /\ j <= Len(delete_plan)
    /\ LET directory == delete_plan[j]
       IN  \E r \in DeleteEntry(fs, readonly, deleted_paths, directory, dry_run) :
             /\ r.status = "SUCCESS"
             /\ fs' = r.fs
             /\ readonly' = readonly \cap DOMAIN r.fs
             /\ deleted_paths' = deleted_paths \cup {directory}
             /\ removed_nonempty' =
                    IF FilesUnder(fs, directory) # {}
                    THEN removed_nonempty \cup {directory}
                    ELSE removed_nonempty
    /\ pc' = "killed"
    /\ UNCHANGED <<fs1, log, operations, u, j, num_deleted_directories, delete_result>>
    /\ UNCHANGED <<plan_vars, transfer_vars, classifier_vars>>
    /\ UNCHANGED <<planner_vars, session_vars, history_file, undo_log>>

\* undo of one operation: history.undo_operation(session_id, operation_number - 1),
\* operation_number within 1..len(operations)
UndoOne ==
    /\ pc \in Finished
    /\ Len(undo_log) < MaxUndo
    /\ \E operation_number \in 1..Len(operations) :
         LET r == UndoOperation(fs, readonly, operations, operation_number)
         IN  /\ fs' = r.fs
             /\ operations' = r.operations
             /\ history_file' = IF r.ok
                                 THEN save_history(history_file, sessions, r.operations, FALSE)
                                 ELSE history_file
             /\ undo_log' = Append(undo_log, [index |-> operation_number, ok |-> r.ok])
    /\ UNCHANGED <<readonly, pc, fs1, log, u>>
    /\ UNCHANGED <<plan_vars, transfer_vars, delete_vars, classifier_vars>>
    /\ UNCHANGED <<planner_vars, session_vars>>

\* undo of the session: for i in reversed(range(len(operations)))
UndoStart ==
    /\ pc \in Finished
    /\ Len(operations) > 0
    /\ u' = Len(operations)
    /\ pc' = "undo"
    /\ UNCHANGED <<fs, readonly, fs1, log, operations>>
    /\ UNCHANGED <<plan_vars, transfer_vars, delete_vars, classifier_vars>>
    /\ UNCHANGED <<planner_vars, session_vars, history_file, undo_log>>

\* one history.undo_operation(session_id, i) of that loop; a False result breaks it
UndoStep ==
    /\ pc = "undo"
    /\ LET r == UndoOperation(fs, readonly, operations, u)
       IN  /\ fs' = r.fs
           /\ operations' = r.operations
           /\ pc' = UndoLoop(u, r.ok).pc
           /\ u' = UndoLoop(u, r.ok).u
           /\ history_file' = IF r.ok
                               THEN save_history(history_file, sessions, r.operations, FALSE)
                               ELSE history_file
           /\ undo_log' = Append(undo_log, [index |-> u, ok |-> r.ok])
    /\ UNCHANGED <<readonly, fs1, log>>
    /\ UNCHANGED <<plan_vars, transfer_vars, delete_vars, classifier_vars>>
    /\ UNCHANGED <<planner_vars, session_vars>>

\* get_settings: the excludes of the settings become excludes_set
GetSettings ==
    /\ pc = "get_settings"
    /\ excludes' = excludes_set(excludes)
    /\ pc' = "main_create_plans"
    /\ UNCHANGED <<fs, readonly, fs1, log, operations, u, source_dir, destination_dir,
                   plan_calls>>
    /\ UNCHANGED <<plan_vars, transfer_vars, delete_vars, classifier_vars>>
    /\ UNCHANGED <<session_vars, history_file, undo_log>>

\* transfer_plan, delete_plan = create_plans(**settings)
CreatePlans ==
    /\ pc \in {"create_plans", "main_create_plans"}
    /\ Len(plan_calls) < MaxCalls
    /\ \E order \in Orders :
         LET r == create_plans(fs, source_dir, cleaning_plan, unrecognized_file,
                               excludes, order)
         IN  /\ transfer_plan' = r.transfer_plan
             /\ delete_plan' = r.delete_plan
             /\ plan_calls' = Append(plan_calls, r)
    /\ UNCHANGED <<fs, readonly, pc, fs1, log, operations, u, source_dir, destination_dir,
                   excludes>>
    /\ UNCHANGED <<dry_run, fs0, transfer_vars, delete_vars, classifier_vars>>
    /\ UNCHANGED <<session_vars, history_file, undo_log>>

\* main: the check of the source directory, then get_settings, which raises
\* on a bad source or destination and otherwise creates the destination
\* directory and computes the settings; an exit or an uncaught exception ends
\* the invocation with a non-zero exit code
MainValidate ==
    /\ pc = "main"
    /\ LET dst == DestinationRoot(source_dir, destination_dir)
           mk == IF destination_dir = <<>> THEN [ok |-> TRUE, fs |-> fs]
                 ELSE Mkdir(fs, readonly, dst)
       IN  IF get_settings_raises(fs, source_dir, destination_dir) \/ ~mk.ok
           THEN /\ pc' = "exit_1"
                /\ UNCHANGED <<fs, cleaning_plan, unrecognized_file, excludes>>
           ELSE /\ pc' = "main_begin"
                /\ fs' = mk.fs
                /\ cleaning_plan' = SettingsCleaningPlan(dst)
                /\ unrecognized_file' = SettingsUnrecognized(dst)
                /\ excludes' = excludes_set(excludes)
    /\ UNCHANGED <<readonly, fs1, log, operations, u, file, folder,
                   source_dir, destination_dir, plan_calls>>
    /\ UNCHANGED <<plan_vars, transfer_vars, delete_vars>>
    /\ UNCHANGED <<session_vars, history_file, undo_log>>

\* main: transfer_plan, delete_plan = create_plans(**settings), after the
\* session was started and before run_file_operations
MainCreatePlans ==
    /\ pc = "main_plan"
    /\ \E order \in Orders :
         LET r == create_plans(fs, source_dir, cleaning_plan, unrecognized_file,
                               excludes, order)
         IN  /\ transfer_plan' = r.transfer_plan
             /\ delete_plan' = r.delete_plan
             /\ plan_calls' = Append(plan_calls, r)
    /\ fs0' = fs
    /\ pc' = "transfer"
    /\ UNCHANGED <<fs, readonly, fs1, log, operations, u, source_dir, destination_dir,
                   excludes>>
    /\ UNCHANGED <<dry_run, transfer_vars, delete_vars, classifier_vars>>
    /\ UNCHANGED <<session_vars, history_file, undo_log>>

Next ==
    \/ TransferResolve
    \/ TransferMove
    \/ TransferReturn
    \/ DeleteStep
    \/ DeleteReturn

NextRace ==
    \/ Next
    \/ ExternalCreate

NextPlan ==
    \/ GetSettings
    \/ CreatePlans

NextUndo ==
    \/ Next
    \/ UndoStart
    \/ UndoStep

NextUndoOne ==
    \/ Next
    \/ UndoOne

NextSession ==
    \/ RunBegin
    \/ Next
    \/ RunComplete
    \/ Kill
    \/ KillAfterMove
    \/ KillAfterRmtree
    \/ UndoStart
    \/ UndoStep

NextMain ==
    \/ MainValidate
    \/ RunBegin
    \/ MainCreatePlans
    \/ Next
    \/ RunComplete

Spec == Init /\ [][Next]_vars
SpecRace == Init /\ [][NextRace]_vars
SpecUndo == Init /\ [][NextUndo]_vars
SpecClassify == InitClassify /\ [][Classify]_vars
SpecPlan == InitPlan /\ [][NextPlan]_vars
SpecUndoOne == InitUndoOne /\ [][NextUndoOne]_vars
SpecSession == InitSession /\ [][NextSession]_vars
SpecMain == InitMain /\ [][NextMain]_vars

\* ------------------------------------------------------------------ claims
Sources == { transfer_plan[k][1] : k \in DOMAIN transfer_plan }
InTransfer == pc \in {"transfer", "move"}
\* the filesystem as transfer_files left it, or as it is while it runs
TransferView == IF InTransfer THEN fs ELSE fs1
\* the records delete_dirs has logged
DeleteLog == SubSeq(log, Len(transfer_plan) + 1, Len(log))
PathsHolding(f, c) == { q \in DOMAIN f : f[q].kind = "file" /\ f[q].content = c }

\* C1 (as amended), collision law: in a transfer_files call that is not a dry
\* run and that nothing interferes with, no move lands on a path that holds
\* something, every file of the tree is still somewhere afterwards, two
\* sources planned to the same destination that both moved are at two distinct
\* paths, and a file that was there before the call and is not itself a
\* source of the plan still holds its content at its path.
C1_CollisionLaw ==
    ~dry_run =>
        /\ clobbered = {}
        /\ Contents(fs0) \subseteq Contents(TransferView)
        /\ \A q \in DOMAIN fs0 :
              (fs0[q].kind = "file" /\ q \notin Sources) =>
                  (q \in DOMAIN TransferView /\ TransferView[q] = fs0[q])
        /\ \A a, b \in moved :
              (/\ a # b
               /\ transfer_plan[a][2] = transfer_plan[b][2]
               /\ IsFile(fs0, transfer_plan[a][1])
               /\ IsFile(fs0, transfer_plan[b][1])) =>
                  \E q1 \in PathsHolding(TransferView, fs0[transfer_plan[a][1]].content) :
                  \E q2 \in PathsHolding(TransferView, fs0[transfer_plan[b][1]].content) :
                     q1 # q2

\* C1 witness: dest/a.txt was there, src/d/a.txt and src/a.txt were both
\* planned to it and both moved.
C1_Witness ==
    /\ ~dry_run
    /\ transfer_result = <<2, 2>>
    /\ transfer_plan = << <<A1, B>>, <<A2, B>> >>
    /\ IsFile(fs0, B)
    /\ IsFile(fs1, B) /\ fs1[B] = fs0[B]

\* C1 as stated: every file that was in a destination directory before the
\* call still holds its original content at its path after the call.
C1_Original ==
    (~dry_run /\ transfer_result # <<>>) =>
        \A q \in DOMAIN fs0 :
            (/\ fs0[q].kind = "file"
             /\ \E k \in DOMAIN transfer_plan : Parent(q) = Parent(transfer_plan[k][2])) =>
                (q \in DOMAIN fs1 /\ fs1[q] = fs0[q])

\* C2, nested-deletion law: in a delete_dirs call that is not a dry run, on a
\* plan in which a directory precedes one of its descendants, whose entries
\* all exist as directories when the call starts and none of whose removals
\* raises, every entry is counted, the entries under an already removed one
\* are counted as skipped, the result is (len(plan), len(plan)) and none of
\* the planned directories exists afterwards.
C2_NestedDeletion ==
    (/\ ~dry_run
     /\ delete_result # <<>>
     /\ \E a, b \in DOMAIN delete_plan : a < b /\ IsRelativeTo(delete_plan[b], delete_plan[a])
     /\ \A k \in DOMAIN delete_plan : IsDir(fs1, delete_plan[k])
     /\ \A k \in DOMAIN DeleteLog : DeleteLog[k].status # "FAILED") =>
        /\ delete_result = <<Len(delete_plan), Len(delete_plan)>>
        /\ \A k \in DOMAIN delete_plan : ~Exists(fs, delete_plan[k])
        /\ Len(DeleteLog) = Len(delete_plan)
        /\ \A b \in DOMAIN delete_plan :
              (\E a \in DOMAIN delete_plan : a < b /\ IsRelativeTo(delete_plan[b], delete_plan[a]))
                  => DeleteLog[b].status = "SKIPPED"

\* C2 witness: the plan [src/d, src/d/sub], both there, returned (2, 2).
C2_Witness ==
    /\ ~dry_run
    /\ delete_plan = <<d, sub>>
    /\ IsDir(fs1, d) /\ IsDir(fs1, sub)
    /\ delete_result = <<2, 2>>
    /\ ~Exists(fs, d)

\* C3, dry-run purity: with dry_run set, transfer_files and delete_dirs leave
\* the filesystem exactly as it was and return (0, len(plan)).
C3_DryRunPurity ==
    dry_run =>
        /\ fs = fs0
        /\ transfer_result # <<>> => transfer_result = <<0, Len(transfer_plan)>>
        /\ delete_result # <<>> => delete_result = <<0, Len(delete_plan)>>

\* C3 witness: a dry run of two transfer entries and of [src/d, src/d/sub] has returned.
C3_Witness ==
    /\ dry_run
    /\ pc = "done"
    /\ Len(transfer_plan) = 2
    /\ delete_plan = <<d, sub>>
    /\ IsDir(fs, sub)

\* C4 as stated, undo round trip: a session of one successful Move(A -> B)
\* and one successful DeleteDirectory(D), D the parent of A holding nothing
\* but A, undone from the last operation to the first, leaves the whole tree
\* as it was before the run.
C4_UndoRoundTrip ==
    (/\ pc = "undone"
     /\ Len(transfer_plan) = 1
     /\ transfer_result = <<1, 1>>
     /\ delete_plan = <<Parent(transfer_plan[1][1])>>
     /\ delete_result = <<1, 1>>
     /\ Under(fs0, delete_plan[1]) = {delete_plan[1], transfer_plan[1][1]}) =>
        fs = fs0

\* C5 as stated: in a run whose plans are those of the tree (the deletion
\* plan lists directories of the tree, the transfer plan every file under
\* them), the cleanup removes no directory that still holds a file.
C5_OnlyEmptyDirsRemoved ==
    (/\ ~dry_run
     /\ \A k \in DOMAIN delete_plan :
           /\ IsDir(fs0, delete_plan[k])
           /\ FilesUnder(fs0, delete_plan[k]) \subseteq Sources) =>
        removed_nonempty = {}

\* C6: a failing move never aborts the batch: transfer_files handles every
\* entry in plan order, one record each, and returns (succeeded, total) with
\* total = len(plan) and succeeded the number of entries whose file really
\* went from its source to the effective destination, at most total.
C6_FailureDoesNotAbort ==
    /\ InTransfer =>
          /\ Len(log) = i - 1
          /\ num_transferred_files = Cardinality(moved)
    /\ \A k \in 1..(i - 1) :
          /\ log[k].op = "MOVE_FILE"
          /\ log[k].from = transfer_plan[k][1]
          /\ (log[k].status = "SUCCESS") <=> (k \in moved)
    /\ transfer_result # <<>> =>
          /\ i = Len(transfer_plan) + 1
          /\ transfer_result = <<Cardinality(moved), Len(transfer_plan)>>
          /\ transfer_result[1] <= transfer_result[2]

\* C6 witness: the first entry failed, the second moved, and (1, 2) was returned.
C6_Witness ==
    /\ ~dry_run
    /\ transfer_result = <<1, 2>>
    /\ log[1].status = "FAILED"
    /\ log[2].status = "SUCCESS"

CannotRemove ==
    /\ pc = "cleanup"
    /\ j <= Len(delete_plan)
    /\ ~dry_run
    /\ ~AlreadyDeleted(delete_plan[j], deleted_paths)
    /\ j' = j + 1
    /\ ~Exists(fs, delete_plan[j]) \/ Exists(fs', delete_plan[j])

\* C7 (as amended): in a delete_dirs call that is not a dry run, an entry that
\* cannot be removed is not counted; when it does not exist the filesystem is
\* unchanged, and when its removal raises the directory itself and everything
\* outside it are unchanged, while entries inside it may already be gone; the
\* loop goes on to the next entry, and total is len(plan).
C7_FailedRemoval ==
    [][ /\ CannotRemove =>
            /\ num_deleted_directories' = num_deleted_directories
            /\ deleted_paths' = deleted_paths
            /\ pc' = "cleanup"
            /\ DOMAIN fs' \subseteq DOMAIN fs
            /\ \A q \in DOMAIN fs' : fs'[q] = fs[q]
            /\ \A q \in DOMAIN fs :
                   (q = delete_plan[j] \/ ~IsRelativeTo(q, delete_plan[j])) => q \in DOMAIN fs'
        /\ (pc = "cleanup" /\ pc' = "done") =>
            delete_result' = <<num_deleted_directories, Len(delete_plan)>>
      ]_vars

\* C7 witness: an entry whose removal raised was followed by one that was removed.
C7_Witness ==
    /\ ~dry_run
    /\ delete_result = <<1, 2>>
    /\ Len(DeleteLog) = 2
    /\ DeleteLog[1].status = "FAILED"
    /\ DeleteLog[2].status = "SUCCESS"

\* C7 as stated: an entry that cannot be removed is not counted and leaves
\* the filesystem unchanged.
C7_Original ==
    [][ CannotRemove =>
            /\ num_deleted_directories' = num_deleted_directories
            /\ fs' = fs
      ]_vars

\* the planned name followed by _1, _1_2, ..., each number appended to the last candidate
Chain(p, n) == [p EXCEPT ![Len(p)].idx = @ \o [k \in 1..n |-> k]]
\* the planned name with _n before its extension
Indexed(p, n) == [p EXCEPT ![Len(p)].idx = Append(@, n)]

\* C8 (as amended), effective destination: when the planned destination
\* name.ext is occupied the candidates are name_1.ext, name_1_2.ext,
\* name_1_2_3.ext, ..., each number appended to the stem of the previous
\* candidate, and the file is placed at the first one that does not exist.
C8_EffectiveDestination ==
    /\ pc = "move" =>
          \E n \in 0..Cardinality(DOMAIN fs) :
              /\ destination = Chain(transfer_plan[i][2], n)
              /\ ~Exists(fs, destination)
              /\ \A m \in 0..(n - 1) : Exists(fs, Chain(transfer_plan[i][2], m))
    /\ \A k \in moved :
          \E n \in 0..Cardinality(DOMAIN fs0) + Len(transfer_plan) :
              log[k].to = Chain(transfer_plan[k][2], n)
    /\ (pc = "transfer" /\ (i - 1) \in moved) =>
          /\ log[i - 1].to = destination
          /\ IsFile(fs, destination)

\* C8 witness: dest/a.txt and dest/a_1.txt are taken and the file went to dest/a_1_2.txt.
C8_Witness ==
    /\ pc = "transfer"
    /\ (i - 1) \in moved
    /\ transfer_plan[i - 1][2] = B
    /\ destination = Chain(B, 2)
    /\ IsFile(fs, destination)

\* C8 as stated: the candidates are name_1.ext, name_2.ext, name_3.ext, ...,
\* the index put before the extension of the planned name.
C8_Original ==
    pc = "move" =>
        \/ /\ ~Exists(fs, transfer_plan[i][2])
           /\ destination = transfer_plan[i][2]
        \/ /\ Exists(fs, transfer_plan[i][2])
           /\ \E n \in 1..Cardinality(DOMAIN fs) :
                 /\ destination = Indexed(transfer_plan[i][2], n)
                 /\ ~Exists(fs, destination)
                 /\ \A m \in 1..(n - 1) : Exists(fs, Indexed(transfer_plan[i][2], m))

\* C9 as stated, race tolerance: when another actor creates a file at the
\* effective destination (a path other than the source) between the existence
\* check and the move, the move fails, is reported as a failure and not
\* counted, and the file the other actor created is not overwritten.
C9_RaceTolerant ==
    (pc = "transfer" /\ (i - 1) \in raced /\ transfer_plan[i - 1][1] # destination) =>
        /\ log[i - 1].status = "FAILED"
        /\ (i - 1) \notin moved
        /\ IsFile(fs, destination)
        /\ fs[destination].content = "external"

\* C10 (as amended): the classifier is total and deterministic: it returns
\* the folder of the first rule, in iteration order, whose extension list
\* holds the file's suffix (with its dot, compared case-sensitively) and the
\* fallback folder when no rule does; a file with no extension has the empty
\* suffix, so it gets the fallback unless a rule lists the empty string.
C10_Classifier ==
    pc = "classified" =>
        LET hit(k) == Suffix(file) \in cleaning_plan[k].extensions
        IN  /\ (\A k \in DOMAIN cleaning_plan : ~hit(k)) => folder = unrecognized_file
            /\ \A k \in DOMAIN cleaning_plan :
                  (hit(k) /\ \A m \in 1..(k - 1) : ~hit(m)) => folder = cleaning_plan[k].folder
            /\ (Suffix(file) = "" /\ \A k \in DOMAIN cleaning_plan : "" \notin cleaning_plan[k].extensions)
                  => folder = unrecognized_file
            /\ (Suffix(file) = ".TXT" /\ \A k \in DOMAIN cleaning_plan : ".TXT" \notin cleaning_plan[k].extensions)
                  => folder = unrecognized_file

\* C10 witness: two rules list .txt and a.txt got the folder of the first.
C10_Witness ==
    /\ pc = "classified"
    /\ Suffix(file) = ".txt"
    /\ Len(cleaning_plan) = 2
    /\ ".txt" \in cleaning_plan[1].extensions
    /\ ".txt" \in cleaning_plan[2].extensions
    /\ folder = cleaning_plan[1].folder

\* C10 as stated: first match or fallback, and a file with no extension
\* never matches a rule and always gets the fallback.
C10_Original ==
    pc = "classified" =>
        LET hit(k) == Suffix(file) \in cleaning_plan[k].extensions
        IN  /\ (\A k \in DOMAIN cleaning_plan : ~hit(k)) => folder = unrecognized_file
            /\ \A k \in DOMAIN cleaning_plan :
                  (hit(k) /\ \A m \in 1..(k - 1) : ~hit(m)) => folder = cleaning_plan[k].folder
            /\ Suffix(file) = "" => folder = unrecognized_file

\* ------------------------------------------------------------ planner claims
Excluded(q) == \E e \in excludes : IsRelativeTo(q, e)
PlanSources(call) == { call.transfer_plan[k][1] : k \in DOMAIN call.transfer_plan }
PlanEntrySet(call) == { call.transfer_plan[k] : k \in DOMAIN call.transfer_plan }
PlanDirs(call) == { call.delete_plan[k] : k \in DOMAIN call.delete_plan }
StrictlyUnder(f, dir) == { q \in DOMAIN f : q # dir /\ IsRelativeTo(q, dir) }

\* C11 as stated, planner exclusion: no file that is or lies under an excluded
\* path is a source of the transfer plan, no directory that is or lies under
\* an excluded path is in the deletion plan, and the entries outside every
\* excluded path are planned.
C11_PlannerExclusion ==
    \A c \in DOMAIN plan_calls :
        /\ \A q \in PlanSources(plan_calls[c]) : ~Excluded(q)
        /\ \A q \in PlanDirs(plan_calls[c]) : ~Excluded(q)
        /\ \A q \in StrictlyUnder(fs, source_dir) :
               ~Excluded(q) =>
                   /\ IsFile(fs, q) => q \in PlanSources(plan_calls[c])
                   /\ IsDir(fs, q) => q \in PlanDirs(plan_calls[c])

\* C12, planner partition: called with no excludes, create_plans returns one
\* transfer entry (file, get_folder_path(file) / file.name) for every regular
\* file strictly under source_dir and nothing else, the directories strictly
\* under source_dir (never source_dir) each once as the deletion plan, and a
\* symbolic link to a missing target in neither plan.
C12_PlannerPartition ==
    \A c \in DOMAIN plan_calls :
        excludes = {} =>
            LET call == plan_calls[c]
                below == StrictlyUnder(fs, source_dir)
                files == { q \in below : IsFile(fs, q) }
                dirs == { q \in below : IsDir(fs, q) }
            IN  /\ PlanEntrySet(call) =
                      { <<q, Append(get_folder_path(q, cleaning_plan, unrecognized_file),
                                    q[Len(q)])>> : q \in files }
                /\ Len(call.transfer_plan) = Cardinality(files)
                /\ PlanDirs(call) = dirs
                /\ Len(call.delete_plan) = Cardinality(dirs)
                /\ source_dir \notin PlanDirs(call)
                /\ \A q \in below :
                       fs[q].kind = "symlink" =>
                           q \notin PlanSources(call) \cup PlanDirs(call)

\* C12 witness: a tree with a nested directory and a dangling link has been
\* planned with no excludes.
C12_Witness ==
    /\ Len(plan_calls) >= 1
    /\ excludes = {}
    /\ Exists(fs, test_link)
    /\ Exists(fs, sub)
    /\ Len(transfer_plan) = 2
    /\ Len(delete_plan) = 2

\* C13, idempotent replanning: create_plans leaves the filesystem as it was,
\* and two calls on the same tree with the same rules, fallback and excludes
\* return the same transfer plan and the same deletion plan as sets.
C13_IdempotentReplanning ==
    /\ plan_calls # <<>> => fs = fs0
    /\ \A a, b \in DOMAIN plan_calls :
           /\ PlanEntrySet(plan_calls[a]) = PlanEntrySet(plan_calls[b])
           /\ PlanDirs(plan_calls[a]) = PlanDirs(plan_calls[b])

\* C13 witness: two calls that listed the tree in different orders.
C13_Witness ==
    /\ Len(plan_calls) = 2
    /\ plan_calls[1] # plan_calls[2]
    /\ Len(plan_calls[1].transfer_plan) >= 2
    /\ Len(plan_calls[1].delete_plan) >= 2

\* C14 as stated: the exclusion set get_settings builds for a run holds the
\* history file's path and the settings file's path, and neither file is
\* planned for a move when the source directory contains them.
C14_OwnStateExcluded ==
    pc = "main_create_plans" =>
        /\ history_file_path \in excludes
        /\ settings_file_path \in excludes
        /\ \A c \in DOMAIN plan_calls :
               /\ history_file_path \notin PlanSources(plan_calls[c])
               /\ settings_file_path \notin PlanSources(plan_calls[c])

\* --------------------------------------------------------------- undo claims
\* a step in which undo_operation was called: its index, its operation, its result
UndoCalled == Len(undo_log') = Len(undo_log) + 1
UndoIndex == undo_log'[Len(undo_log')].index
UndoOk == undo_log'[Len(undo_log')].ok
UndoOp == operations[UndoIndex]

C16_UndoDeleteDirectory ==
    [][ (UndoCalled /\ UndoOp.type = "DeleteDirectory") =>
          /\ UndoOk => \A q \in Prefixes(UndoOp.source) : IsDir(fs', q)
          /\ \A q \in DOMAIN fs : q \in DOMAIN fs' /\ fs'[q] = fs[q]
          /\ readonly = {} => UndoOk
          /\ IsDir(fs, UndoOp.source) => (UndoOk /\ fs' = fs) ]_vars

\* C16 witness: src/d and src/d/sub were removed; undoing the deletion of
\* src/d/sub recreated both, and undoing the deletion of src/d then succeeded
\* on the directory that was already there.
C16_Witness ==
    /\ transfer_plan = <<>>
    /\ delete_plan = <<d, sub>>
    /\ undo_log = <<[index |-> 2, ok |-> TRUE], [index |-> 1, ok |-> TRUE]>>
    /\ IsDir(fs, sub)
    /\ operations = <<>>

\* C17, a successful undo_operation(session_id, i) removes the operation at
\* index i and no other from the session's list and saves the journal; the
\* undone operation is no longer in the list, so a second call with the same
\* index cannot reverse it again; a failed call leaves the list and the saved
\* journal as they were.
C17_UndoRemovesOperation ==
    [][ UndoCalled =>
          IF UndoOk
          THEN /\ Len(operations') = Len(operations) - 1
               /\ \A n \in DOMAIN operations' :
                      operations'[n] = IF n < UndoIndex THEN operations[n]
                                       ELSE operations[n + 1]
               /\ \A n \in DOMAIN operations' : operations'[n] # UndoOp
               /\ history_file'.operations = operations'
          ELSE /\ operations' = operations
               /\ history_file' = history_file ]_vars

\* C17 witness: undo_operation was called twice with the same index, the
\* first call succeeded and operations after that index remain.
C17_Witness ==
    /\ Len(undo_log) = 2
    /\ undo_log[1].index = undo_log[2].index
    /\ undo_log[1].ok
    /\ undo_log[1].index = 1
    /\ Len(operations) >= 1
    /\ history_file.operations = operations

\* C18, undo of a session: undo_operation is called once per operation from
\* the last index down, the loop ends at the first call that returns false,
\* the operations at and below that index stay in the journal, and success
\* is reported only when every operation was undone.
C18_SessionUndoOrder ==
    pc \in {"undo", "undo_failed", "undone"} =>
        LET n == Len(undo_log)
            undone == { k \in 1..n : undo_log[k].ok }
        IN  /\ n > 0 => undo_log[1].index = Len(operations) + Cardinality(undone)
            /\ \A k \in 1..n : undo_log[k].index = undo_log[1].index - (k - 1)
            /\ \A k \in 1..(n - 1) : undo_log[k].ok
            /\ pc = "undo" => undone = 1..n
            /\ pc = "undo_failed" =>
                   /\ n > 0
                   /\ ~undo_log[n].ok
                   /\ Len(operations) = undo_log[n].index
                   /\ history_file.operations = operations
            /\ pc = "undone" => (undone = 1..n /\ operations = <<>>)

\* C18 witness: the session undo undid the last operation, failed on the one
\* before it, and left that one and the one below it in the journal.
C18_Witness ==
    /\ pc = "undo_failed"
    /\ Len(undo_log) = 2
    /\ undo_log[1].ok
    /\ Len(operations) = 2

\* ------------------------------------------------------------ session claims
\* C19, start_session: the new session's id is 1 in an empty journal and the
\* highest id of the journal plus one otherwise, the session is appended
\* after the others with status Running and no operations, and the saved
\* journal holds it when start_session returns.
C19_StartSession ==
    [][ (pc = "begin" /\ pc' = "transfer" /\ ~dry_run) =>
          LET prior == history_file.sessions
              new == sessions'[Len(sessions')]
          IN  /\ Len(sessions') = Len(prior) + 1
              /\ \A k \in DOMAIN prior : sessions'[k] = prior[k]
              /\ prior = <<>> => new.id = 1
              /\ prior # <<>> =>
                     /\ \A k \in DOMAIN prior : prior[k].id < new.id
                     /\ \E k \in DOMAIN prior : prior[k].id = new.id - 1
              /\ new.status = "Running"
              /\ operations' = <<>>
              /\ current_session' = Len(sessions')
              /\ history_file' = [sessions |-> sessions', operations |-> <<>>] ]_vars

\* C19 witness: a run has started its session in a journal of two sessions.
C19_Witness ==
    /\ pc = "transfer"
    /\ i = 1
    /\ ~dry_run
    /\ Len(sessions) = 3
    /\ sessions[3] = [id |-> 3, status |-> "Running"]
    /\ history_file.sessions = sessions
    /\ operations = <<>>

\* C20, session lifecycle: a dry run never writes the journal and has no
\* session; a session appears only when a run that is not a dry run begins,
\* as Running; the only change of a status is Running to Completed, of the
\* run's own session, when the run finishes, and it is saved; a killed run
\* changes no status, and no run or undo changes an earlier session.
C20_SessionLifecycle ==
    [][ LET old == history_file.sessions
            new == history_file'.sessions
        IN  /\ dry_run => (history_file' = history_file /\ sessions' = <<>>)
            /\ Len(new) >= Len(old)
            /\ Len(new) > Len(old) =>
                   /\ pc = "begin" /\ ~dry_run
                   /\ Len(new) = Len(old) + 1
                   /\ new[Len(new)].status = "Running"
            /\ \A k \in DOMAIN old :
                   /\ new[k].id = old[k].id
                   /\ new[k].status # old[k].status =>
                          /\ k = current_session
                          /\ pc = "done" /\ pc' = "completed"
                          /\ old[k].status = "Running"
                          /\ new[k].status = "Completed"
            /\ (pc = "done" /\ pc' = "completed" /\ ~dry_run) =>
                   new[current_session].status = "Completed"
            /\ pc' = "killed" => new = old ]_vars

\* C20 witness: a run has finished in a journal whose first session was
\* abandoned: that one is still Running, the run's own is Completed and saved.
C20_Witness ==
    /\ pc = "completed"
    /\ ~dry_run
    /\ current_session = 3
    /\ Len(operations) >= 1
    /\ sessions = <<[id |-> 1, status |-> "Running"], [id |-> 2, status |-> "Completed"],
                    [id |-> 3, status |-> "Completed"]>>
    /\ history_file.sessions = sessions

C23_PhaseOrdering ==
    /\ (j > 1 \/ delete_result # <<>>) =>
           (transfer_result # <<>> /\ i = Len(transfer_plan) + 1)
    /\ \A a, b \in DOMAIN operations :
           (a < b /\ operations[a].type = "DeleteDirectory") =>
               operations[b].type = "DeleteDirectory"
    /\ \A a, b \in DOMAIN log :
           (a < b /\ log[a].op = "DELETE_DIR") => log[b].op = "DELETE_DIR"

\* C23 witness: two moves then two deletions are in the session.
C23_Witness ==
    /\ pc = "done"
    /\ Len(operations) = 4
    /\ operations[2].type = "Move"
    /\ operations[3].type = "DeleteDirectory"

\* --------------------------------------------------------- behaviour claims
\* the candidate a candidate was derived from: its last copy number removed
Previous(p) == [p EXCEPT ![Len(p)].idx = SubSeq(@, 1, Len(@) - 1)]
CopyNumbers(p) == p[Len(p)].idx

\* C26, collision suffixes accumulate: a destination that is not the planned
\* one carries the copy numbers 1..n in a row and was derived from the
\* occupied candidate with the numbers 1..n-1; with dest/a.txt there and two
\* entries planned to dest/a.txt the files are at dest/a_1.txt and
\* dest/a_1_2.txt and both moves are counted.
C26_SuffixesAccumulate ==
    /\ (pc = "move" /\ destination # transfer_plan[i][2]) =>
           LET n == Len(CopyNumbers(destination))
           IN  /\ n > Len(CopyNumbers(transfer_plan[i][2]))
               /\ CopyNumbers(destination)[n] = n - Len(CopyNumbers(transfer_plan[i][2]))
               /\ Exists(fs, Previous(destination))
               /\ ~Exists(fs, destination)
    /\ (/\ pc = "done" /\ ~dry_run /\ readonly = {}
        /\ transfer_plan = <<<<A1, B>>, <<A2, B>>>>
        /\ IsFile(fs0, B) /\ ~Exists(fs0, B1)) =>
           /\ fs[B] = fs0[B]
           /\ fs[B1] = fs0[A1]
           /\ IsFile(fs, WithCopyNumber(B1, 2)) /\ fs[WithCopyNumber(B1, 2)] = fs0[A2]
           /\ transfer_result = <<2, 2>>

\* C26 witness: the run of that scenario has finished.
C26_Witness ==
    /\ pc = "done" /\ ~dry_run /\ readonly = {}
    /\ transfer_plan = <<<<A1, B>>, <<A2, B>>>>
    /\ IsFile(fs0, B) /\ ~Exists(fs0, B1)
    /\ log[2].to = WithCopyNumber(B1, 2)
    /\ log[2].status = "SUCCESS"

\* the FAILED records logged for an operation
FailedRecords(op) == { k \in DOMAIN log : log[k].op = op /\ log[k].status = "FAILED" }

\* C27 as stated: after a run that is not a dry run, the number of FAILED
\* records logged by transfer_files is total - succeeded, and so is the
\* number logged by delete_dirs, an entry whose directory does not exist
\* included.
C27_FailuresReported ==
    (pc = "done" /\ ~dry_run) =>
        /\ Cardinality(FailedRecords("MOVE_FILE")) = transfer_result[2] - transfer_result[1]
        /\ Cardinality(FailedRecords("DELETE_DIR")) = delete_result[2] - delete_result[1]

\* C29, the already-removed set: deleted_paths holds the entries for which
\* this call logged SUCCESS and no others (none in a dry run), and an entry
\* is logged SKIPPED only under a directory this call removed.
C29_RemovedSet ==
    /\ deleted_paths =
           { DeleteLog[k].from : k \in { n \in DOMAIN DeleteLog : DeleteLog[n].status = "SUCCESS" } }
    /\ dry_run => deleted_paths = {}
    /\ \A x \in deleted_paths : ~Exists(fs, x) /\ IsDir(fs1, x)
    /\ \A k \in DOMAIN DeleteLog :
           DeleteLog[k].status = "SKIPPED" =>
               \E n \in 1..(k - 1) :
                   /\ DeleteLog[n].status = "SUCCESS"
                   /\ IsRelativeTo(DeleteLog[k].from, DeleteLog[n].from)

\* C29 witness: the removal of src/d failed, and src/d/sub was then attempted
\* on its own and failed as well.
C29_Witness ==
    /\ pc = "done"
    /\ delete_plan = <<d, sub>>
    /\ deleted_paths = {}
    /\ Len(DeleteLog) = 2
    /\ DeleteLog[1].status = "FAILED"
    /\ DeleteLog[2].status = "FAILED"
    /\ DeleteLog[2].from = sub

\* the plan entry an operation recorded at index k of the session came from
OriginalSource(k) ==
    IF k <= Len(transfer_plan) THEN transfer_plan[k][1]
    ELSE delete_plan[k - Len(transfer_plan)]
OriginalType(k) == IF k <= Len(transfer_plan) THEN "Move" ELSE "DeleteDirectory"

\* C30, index walk of the session undo: at every call of the loop the index
\* passed to undo_operation is the last index of the session's operation
\* list, so it is in range, and the operations still in the list are the
\* ones recorded at their indexes by the run.
C30_UndoIndexWalk ==
    pc = "undo" =>
        /\ u = Len(operations)
        /\ u \in DOMAIN operations
        /\ \A k \in DOMAIN operations :
               /\ operations[k].type = OriginalType(k)
               /\ operations[k].source = OriginalSource(k)

\* C30 witness: two operations of a session of four were undone and the loop
\* is about to pass the index of the second, a Move of another file than
\* the first.
C30_Witness ==
    /\ pc = "undo"
    /\ Len(undo_log) = 2
    /\ u = 2
    /\ operations[2].type = "Move"
    /\ operations[1].source # operations[2].source

\* the moves that were carried out and have no Success record in the saved journal
UnjournaledMoves ==
    { k \in moved :
        ~ /\ k <= Len(history_file.operations)
          /\ history_file.operations[k].type = "Move"
          /\ history_file.operations[k].source = transfer_plan[k][1]
          /\ history_file.operations[k].status = "Success" }

\* the directories that were removed and have no Success record in the saved journal
UnjournaledRemovals ==
    { x \in deleted_paths :
        ~ \E k \in DOMAIN history_file.operations :
              /\ history_file.operations[k].type = "DeleteDirectory"
              /\ history_file.operations[k].source = x
              /\ history_file.operations[k].status = "Success" }

Planned == plan_calls # <<>> /\ pc = "transfer" /\ i = 1

\* C24 as stated: no path the validator reports unsafe is in the deletion
\* plan main has built, and the destination root is a path it reports safe.
C24_UnsafeNeverPlanned ==
    Planned =>
        /\ \A k \in DOMAIN delete_plan : is_safe_path(readonly, delete_plan[k], FALSE)
        /\ is_safe_path(readonly, DestinationRoot(source_dir, destination_dir), FALSE)

\* the source option or the destination option is one get_settings rejects
ConfigurationError ==
    \/ ~IsDir(fs0, source_dir)
    \/ destination_dir # <<>> /\ Exists(fs0, destination_dir[1])
                               /\ ~IsDir(fs0, destination_dir[1])

\* C25, configuration errors are fatal: when the source is missing or not a
\* directory, or the destination exists and is not a directory, main goes
\* from its start to a non-zero exit and nowhere else, and at that exit the
\* filesystem is as it was, no session was started or saved, no plan was
\* built, nothing was moved and nothing removed.
C25_ConfigurationErrorsFatal ==
    /\ ConfigurationError => pc \in {"main", "exit_1"}
    /\ pc = "exit_1" =>
           /\ fs = fs0
           /\ sessions = <<>>
           /\ current_session = 0
           /\ history_file = [sessions |-> <<>>, operations |-> <<>>]
           /\ plan_calls = <<>>
           /\ transfer_plan = <<>> /\ delete_plan = <<>>
           /\ moved = {} /\ deleted_paths = {}
           /\ log = <<>> /\ operations = <<>>

\* C25 witness: main was given a destination that is a regular file and has
\* exited, although the source directory holds files to organize.
C25_Witness ==
    /\ pc = "exit_1"
    /\ ~dry_run
    /\ source_dir = src
    /\ destination_dir = <<B>>
    /\ IsFile(fs, B)
    /\ IsFile(fs, A1)

\* C28 as stated: after main has planned and transfer_files and delete_dirs
\* have run (not a dry run), every regular file that was under the source
\* directory at plan time exists with its content at its original path or at
\* its effective destination.
C28_NoFileLost ==
    (plan_calls # <<>> /\ pc = "done" /\ ~dry_run) =>
        \A k \in DOMAIN transfer_plan :
            LET source == transfer_plan[k][1]
            IN  \/ IsFile(fs, source) /\ fs[source] = fs0[source]
                \/ IsFile(fs, log[k].to) /\ fs[log[k].to] = fs0[source]
====
